---- MODULE Spec2Model ----
(***************************************************************************)
(* Model of domain_primitives::entity_id::EntityId<T> (src/src/entity_id.rs) *)
(*                                                                         *)
(* EntityId<T>(Uuid, PhantomData<T>) is a typed wrapper of a 128-bit UUID. *)
(* A Uuid is modelled as the crate stores it, an array of 16 bytes; the    *)
(* type parameter T is modelled by a kind tag that no operation reads.     *)
(* The state is the set of identifiers created so far (ids), the record of *)
(* how each was created (born) and the last operation with its operands    *)
(* and result (last).                                                      *)
(***************************************************************************)
EXTENDS Integers, Sequences, FiniteSets

VARIABLES ids, born, last

vars == <<ids, born, last>>

\* ------------------------------------------------------------------ bounds

\* Identifiers alive in one run.
MaxIds == 2

\* The random source yields the byte strings RandomBytes(0..MaxSeed).
MaxSeed == 1

\* ------------------------------------------------------- the uuid collaborator

Positions == 1..16

\* Entity types the identifiers are instantiated at (Foo of the doc example).
Kinds == {"Foo", "Bar"}

\* One draw of 16 bytes from the random source; seed 0 is the nil value.
RandomBytes(seed) == [i \in Positions |-> (seed * (37 * i + 11)) % 256]

\* Every 128-bit value a caller may hand to from_uuid in this model.
RawPool == {RandomBytes(s) : s \in 0..MaxSeed}

\* Uuid::new_v4 on 16 random bytes: version nibble 0100 in byte 6, variant
\* bits 10 in byte 8 (bytes counted from 0), the other 122 bits kept.
Uuid_new_v4(rnd) ==
  [i \in Positions |->
     IF i = 7 THEN (rnd[i] % 16) + 64
     ELSE IF i = 9 THEN (rnd[i] % 64) + 128
     ELSE rnd[i]]

\* The values the generator can return.
GeneratorOutputs == {Uuid_new_v4(r) : r \in RawPool}

Uuid_nil == [i \in Positions |-> 0]

\* Uuid's derived PartialEq: bytewise equality of the 16 bytes.
Uuid_eq(u, v) == \A i \in Positions : u[i] = v[i]

\* ------------------------------------------------------------------ hasher

HashModulus == 65536

\* Starting states of the caller's hasher.
HasherStates == {0, 40389}

\* One byte taken into the hasher's state.
Hasher_step(state, byte) == (state * 31 + byte + 1) % HashModulus

\* Hasher::write: the bytes are folded into the state one at a time (bytes
\* k.. of the slice still to be written).
RECURSIVE Hasher_write_from(_, _, _)
Hasher_write_from(state, bytes, k) ==
  IF k > Len(bytes) THEN state
  ELSE Hasher_write_from(Hasher_step(state, bytes[k]), bytes, k + 1)

Hasher_write(state, bytes) == Hasher_write_from(state, bytes, 1)

\* Hasher::write_usize: the eight little-endian bytes of n (n < 256 here).
Hasher_write_usize(state, n) ==
  Hasher_write(state, <<n % 256, 0, 0, 0, 0, 0, 0, 0>>)

\* Uuid's derived Hash: the byte array is hashed as a slice, its length
\* prefix first and its bytes after.
Uuid_hash(u, state) ==
  Hasher_write(Hasher_write_usize(state, 16), u)

\* ---------------------------------------------------------------- rendering

LowerHex == <<"0", "1", "2", "3", "4", "5", "6", "7",
              "8", "9", "a", "b", "c", "d", "e", "f">>

UpperHex == <<"0", "1", "2", "3", "4", "5", "6", "7",
              "8", "9", "A", "B", "C", "D", "E", "F">>

TextLen == 36

HyphenAt == {9, 14, 19, 24}

\* Index (from 0) of the hexadecimal digit at text position p: the hyphens
\* before p do not count.
NibbleIndex(p) ==
  p - 1 - (IF p > 9 THEN 1 ELSE 0) - (IF p > 14 THEN 1 ELSE 0)
        - (IF p > 19 THEN 1 ELSE 0) - (IF p > 24 THEN 1 ELSE 0)

\* The n-th hexadecimal digit (from 0, most significant first) of u.
Nibble(u, n) ==
  IF n % 2 = 0 THEN u[(n \div 2) + 1] \div 16 ELSE u[(n \div 2) + 1] % 16

\* Uuid's Display: the hyphenated lower-case form, 8-4-4-4-12.
Uuid_fmt(u) ==
  [p \in 1..TextLen |->
     IF p \in HyphenAt THEN "-" ELSE LowerHex[Nibble(u, NibbleIndex(p)) + 1]]

\* Value of a hexadecimal digit in either case, -1 for any other character.
HexVal(c) ==
  CASE c = "0" -> 0 [] c = "1" -> 1 [] c = "2" -> 2 [] c = "3" -> 3
    [] c = "4" -> 4 [] c = "5" -> 5 [] c = "6" -> 6 [] c = "7" -> 7
    [] c = "8" -> 8 [] c = "9" -> 9
    [] c = "a" \/ c = "A" -> 10 [] c = "b" \/ c = "B" -> 11
    [] c = "c" \/ c = "C" -> 12 [] c = "d" \/ c = "D" -> 13
    [] c = "e" \/ c = "E" -> 14 [] c = "f" \/ c = "F" -> 15
    [] OTHER -> -1

\* Text position of the n-th hexadecimal digit (from 0): the digits of the
\* groups 8-4-4-4-12 with one hyphen after each group but the last.
TextPos(n) ==
  n + 1 + (IF n >= 8 THEN 1 ELSE 0) + (IF n >= 12 THEN 1 ELSE 0)
        + (IF n >= 16 THEN 1 ELSE 0) + (IF n >= 20 THEN 1 ELSE 0)

\* The canonical parser of the hyphenated form: 36 characters, hyphens at the
\* four group boundaries, hexadecimal digits elsewhere.
Uuid_parse_str(text) ==
  IF /\ Len(text) = TextLen
     /\ \A p \in HyphenAt : text[p] = "-"
     /\ \A p \in (1..TextLen) \ HyphenAt : HexVal(text[p]) >= 0
  THEN [ok |-> TRUE,
        uuid |-> [i \in Positions |->
                    16 * HexVal(text[TextPos(2 * (i - 1))])
                    + HexVal(text[TextPos(2 * (i - 1) + 1)])]]
  ELSE [ok |-> FALSE, uuid |-> Uuid_nil]

\* ---------------------------------------------------------------- EntityId<T>

\* Faulty variant of new: the generated value is touched after the generator
\* returned it (its version nibble cleared).
new_mixed(g, kind) ==
  [uuid |-> [i \in Positions |-> IF i = 7 THEN g[i] % 16 ELSE g[i]], kind |-> kind]

\* EntityId::new: Self(Uuid::new_v4(), PhantomData), g the generator's value.
new(g, kind) == [uuid |-> g, kind |-> kind]

\* Faulty variant of from_uuid: the value is forced into version-4 shape.
from_uuid_validating(uuid, kind) == [uuid |-> Uuid_new_v4(uuid), kind |-> kind]

\* Faulty variant of from_uuid: the argument is dropped for the default value.
from_uuid_nil(uuid, kind) == [uuid |-> Uuid_nil, kind |-> kind]

\* EntityId::from_uuid: Self(uuid, PhantomData).
from_uuid(uuid, kind) == [uuid |-> uuid, kind |-> kind]

\* EntityId::to_uuid: self.0
to_uuid(self) == self.uuid

\* Faulty variant of eq: the markers are compared, the values are not.
eq_phantom(self, other) == self.kind = other.kind

\* Faulty variant of eq: != written for ==.
eq_negated(self, other) == ~Uuid_eq(self.uuid, other.uuid)

\* PartialEq::eq: self.0 == other.0
eq(self, other) == Uuid_eq(self.uuid, other.uuid)

\* Faulty variant of hash: the kind is fed to the hasher before the value.
hash_with_kind(self, state) ==
  Uuid_hash(self.uuid, Hasher_write_usize(state, IF self.kind = "Foo" THEN 1 ELSE 2))

\* Hash::hash: self.0.hash(state); the result is the hasher's new state.
hash(self, state) == Uuid_hash(self.uuid, state)

\* Faulty variant of fmt: upper-case digits.
fmt_upper(self) ==
  [p \in 1..TextLen |->
     IF p \in HyphenAt THEN "-"
     ELSE UpperHex[Nibble(self.uuid, NibbleIndex(p)) + 1]]

\* Faulty variant of fmt: a kind prefix before the value's text.
fmt_prefixed(self) == <<"F", "o", "o", ":">> \o Uuid_fmt(self.uuid)

\* Display::fmt: write!(f, "{}", self.0)
fmt(self) == Uuid_fmt(self.uuid)

\* ToString::to_string, the text Display writes.
to_string(self) == fmt(self)

\* The derived Clone.
clone(self) == [uuid |-> self.uuid, kind |-> self.kind]

\* ------------------------------------------------------------------- state

NoOp == [op |-> "none", a |-> 0, b |-> 0, arg |-> <<>>, uuid |-> <<>>,
         bool |-> FALSE, h0 |-> 0, h1 |-> 0, text |-> <<>>]

Init ==
  /\ ids = <<>>
  /\ born = <<>>
  /\ last = NoOp

Live == 1..Len(ids)

\* let id = EntityId::<kind>::new();
New(kind) ==
  /\ Len(ids) < MaxIds
  /\ \E g \in GeneratorOutputs :
       /\ ids' = Append(ids, new(g, kind))
       /\ born' = Append(born, [via |-> "new", raw |-> g, src |-> 0])
       /\ last' = [NoOp EXCEPT !.op = "new", !.a = Len(ids) + 1, !.arg = g]

\* let id = EntityId::<kind>::from_uuid(v);
FromUuid(v, kind) ==
  /\ Len(ids) < MaxIds
  /\ ids' = Append(ids, from_uuid(v, kind))
  /\ born' = Append(born, [via |-> "from_uuid", raw |-> v, src |-> 0])
  /\ last' = [NoOp EXCEPT !.op = "from_uuid", !.a = Len(ids) + 1, !.arg = v]

\* let id2 = FooId::from_uuid(id1.to_uuid());
FromToUuid(i) ==
  /\ Len(ids) < MaxIds
  /\ LET r == to_uuid(ids[i]) IN
       /\ ids' = Append(ids, from_uuid(r, ids[i].kind))
       /\ born' = Append(born, [via |-> "from_uuid", raw |-> r, src |-> i])
       /\ last' = [NoOp EXCEPT !.op = "from_to_uuid", !.a = Len(ids) + 1,
                               !.b = i, !.arg = r]

\* Faulty variant of ToUuid: the value is moved out of the identifier.
ToUuidTaking(i) ==
  /\ ids' = [ids EXCEPT ![i].uuid = Uuid_nil]
  /\ last' = [NoOp EXCEPT !.op = "to_uuid", !.a = i, !.uuid = to_uuid(ids[i])]
  /\ UNCHANGED born

\* let u = id.to_uuid();
ToUuid(i) ==
  /\ last' = [NoOp EXCEPT !.op = "to_uuid", !.a = i, !.uuid = to_uuid(ids[i])]
  /\ UNCHANGED <<ids, born>>

\* let same = a == b;    (a and b of one type)
Eq(i, j) ==
  /\ ids[i].kind = ids[j].kind
  /\ last' = [NoOp EXCEPT !.op = "eq", !.a = i, !.b = j,
                          !.bool = eq(ids[i], ids[j])]
  /\ UNCHANGED <<ids, born>>

\* id.hash(&mut hasher);    (hasher in state h0 before the call)
Hash(i, h0) ==
  /\ last' = [NoOp EXCEPT !.op = "hash", !.a = i, !.h0 = h0,
                          !.h1 = hash(ids[i], h0)]
  /\ UNCHANGED <<ids, born>>

\* let s = id.to_string();
ToString(i) ==
  /\ last' = [NoOp EXCEPT !.op = "to_string", !.a = i, !.text = to_string(ids[i])]
  /\ UNCHANGED <<ids, born>>

\* let c = id.clone();
Clone(i) ==
  /\ Len(ids) < MaxIds
  /\ ids' = Append(ids, clone(ids[i]))
  /\ born' = Append(born, [via |-> "clone", raw |-> born[i].raw, src |-> i])
  /\ last' = [NoOp EXCEPT !.op = "clone", !.a = Len(ids) + 1, !.b = i]

Next ==
  \/ \E k \in Kinds : New(k)
  \/ \E v \in RawPool, k \in Kinds : FromUuid(v, k)
  \/ \E i \in Live : FromToUuid(i)
  \/ \E i \in Live : ToUuid(i)
  \/ \E i \in Live, j \in Live : Eq(i, j)
  \/ \E i \in Live, h \in HasherStates : Hash(i, h)
  \/ \E i \in Live : ToString(i)
  \/ \E i \in Live : Clone(i)

Spec == Init /\ [][Next]_vars

\* ------------------------------------------------------------------ claims

\* A well-formed version-4 value: version nibble 0100, variant bits 10.
IsV4(u) == u[7] \div 16 = 4 /\ u[9] \div 64 = 2

SameKind(i, j) == ids[i].kind = ids[j].kind

\* C1: from_uuid accepts every 128-bit value, well-formed version 4 or not,
\* and to_uuid of the identifier it built returns exactly that value.
C1_FromUuidRoundTrip ==
  /\ \A i \in Live : born[i].via = "from_uuid" => to_uuid(ids[i]) = born[i].raw
  /\ (last.op = "to_uuid" /\ born[last.a].via = "from_uuid")
       => last.uuid = born[last.a].raw
  /\ Len(ids) < MaxIds => \A v \in RawPool, k \in Kinds : ENABLED FromUuid(v, k)

\* C1 witness: to_uuid has returned a wrapped value that is no version-4 UUID.
C1_Witness ==
  /\ last.op = "to_uuid"
  /\ born[last.a].via = "from_uuid"
  /\ born[last.a].src = 0
  /\ ~IsV4(born[last.a].raw)
  /\ born[last.a].raw # Uuid_nil
  /\ last.uuid = born[last.a].raw

\* C2: two identifiers of one kind are equal exactly when their raw values
\* are bitwise equal.
C2_EqIffRawEqual ==
  /\ \A i \in Live, j \in Live :
       SameKind(i, j) => (eq(ids[i], ids[j]) <=> to_uuid(ids[i]) = to_uuid(ids[j]))
  /\ last.op = "eq"
       => (last.bool <=> to_uuid(ids[last.a]) = to_uuid(ids[last.b]))

\* C2 witness: == has compared two separately built identifiers whose raw
\* values differ.
C2_Witness ==
  /\ last.op = "eq"
  /\ last.a # last.b
  /\ to_uuid(ids[last.a]) # to_uuid(ids[last.b])
  /\ last.bool = FALSE

\* C3: identifiers of one kind that compare equal hash equal from the same
\* starting state of the hasher.
C3_HashConsistentWithEq ==
  last.op = "hash"
    => \A j \in Live :
         (SameKind(last.a, j) /\ eq(ids[last.a], ids[j]))
           => hash(ids[j], last.h0) = last.h1

\* C3 witness: an identifier was hashed while a second identifier of its kind
\* built by from_uuid from the same value exists.
C3_Witness ==
  /\ last.op = "hash"
  /\ \E j \in Live :
       /\ j # last.a
       /\ SameKind(last.a, j)
       /\ born[j].via = "from_uuid" /\ born[last.a].via = "from_uuid"
       /\ born[j].raw = born[last.a].raw
       /\ eq(ids[last.a], ids[j])

\* C4: hashing an identifier leaves the hasher where hashing its raw value
\* leaves it, and where hashing an identifier of any kind with that raw value
\* leaves it.
C4_HashIsRawHash ==
  last.op = "hash"
    => /\ last.h1 = Uuid_hash(to_uuid(ids[last.a]), last.h0)
       /\ \A j \in Live :
            to_uuid(ids[j]) = to_uuid(ids[last.a])
              => hash(ids[j], last.h0) = last.h1

\* C4 witness: an identifier was hashed from a non-zero hasher state while an
\* identifier of another kind holds the same raw value.
C4_Witness ==
  /\ last.op = "hash"
  /\ last.h0 # 0
  /\ \E j \in Live :
       ~SameKind(last.a, j) /\ to_uuid(ids[j]) = to_uuid(ids[last.a])

\* The five digit groups of the canonical text: first text position, first
\* byte of the value, number of bytes.
TextGroups == {<<1, 1, 4>>, <<10, 5, 2>>, <<15, 7, 2>>, <<20, 9, 2>>, <<25, 11, 6>>}

\* s is the canonical text of v: 36 characters, hyphens closing the groups of
\* 8-4-4-4-12, and each byte of v as two lower-case digits, high digit first.
IsCanonicalText(s, v) ==
  /\ Len(s) = 36
  /\ s[9] = "-" /\ s[14] = "-" /\ s[19] = "-" /\ s[24] = "-"
  /\ \A g \in TextGroups : \A k \in 0..(g[3] - 1) :
       /\ s[g[1] + 2 * k] = LowerHex[(v[g[2] + k] \div 16) + 1]
       /\ s[g[1] + 2 * k + 1] = LowerHex[(v[g[2] + k] % 16) + 1]

\* C5: the text of an identifier is the canonical lower-case hyphenated text
\* of its raw value, the same as the raw value's own text, for every kind, and
\* rendering is always possible.
C5_DisplayCanonical ==
  /\ \A i \in Live : ENABLED ToString(i)
  /\ last.op = "to_string"
       => /\ IsCanonicalText(last.text, to_uuid(ids[last.a]))
          /\ last.text = Uuid_fmt(to_uuid(ids[last.a]))

\* C5 witness: a rendered text that holds a letter digit.
C5_Witness ==
  /\ last.op = "to_string"
  /\ \E p \in 1..Len(last.text) : last.text[p] \in {"a", "b", "c", "d", "e", "f"}
  /\ ~IsV4(to_uuid(ids[last.a]))

\* C6: parsing an identifier's text and wrapping the value gives an equal
\* identifier, and identifiers with different raw values have different texts.
C6_TextRoundTrip ==
  last.op = "to_string"
    => /\ LET parsed == Uuid_parse_str(last.text) IN
            /\ parsed.ok
            /\ eq(from_uuid(parsed.uuid, ids[last.a].kind), ids[last.a])
            /\ eq(ids[last.a], from_uuid(parsed.uuid, ids[last.a].kind))
       /\ \A j \in Live :
            to_uuid(ids[j]) # to_uuid(ids[last.a]) => to_string(ids[j]) # last.text

\* C6 witness: a text was rendered while an identifier with another raw value
\* exists.
C6_Witness ==
  /\ last.op = "to_string"
  /\ to_uuid(ids[last.a]) # Uuid_nil
  /\ \E j \in Live : to_uuid(ids[j]) # to_uuid(ids[last.a])

\* C7: b = from_uuid(a.to_uuid()) for a generated a: a == b and both render
\* the same text.
C7_GeneratedRewrap ==
  \A j \in Live :
    (born[j].via = "from_uuid" /\ born[j].src # 0 /\ born[born[j].src].via = "new")
      => /\ eq(ids[born[j].src], ids[j])
         /\ eq(ids[j], ids[born[j].src])
         /\ to_string(ids[born[j].src]) = to_string(ids[j])

\* C7 witness: a generated identifier has been rewrapped.
C7_Witness ==
  /\ last.op = "from_to_uuid"
  /\ born[last.b].via = "new"
  /\ born[last.a].src = last.b

\* C9: a generated identifier holds the generator's value as it came, a
\* well-formed version-4 UUID, and generation is always possible.
C9_NewIsV4 ==
  /\ \A i \in Live :
       born[i].via = "new" => IsV4(to_uuid(ids[i])) /\ to_uuid(ids[i]) = born[i].raw
  /\ (last.op = "to_uuid" /\ born[last.a].via = "new")
       => IsV4(last.uuid) /\ last.uuid = born[last.a].raw
  /\ Len(ids) < MaxIds => \A k \in Kinds : ENABLED New(k)

\* C9 witness: to_uuid has returned the value of a generated identifier.
C9_Witness ==
  /\ last.op = "to_uuid"
  /\ born[last.a].via = "new"
  /\ last.uuid # Uuid_new_v4(Uuid_nil)

\* C10: no operation changes an identifier that exists: each keeps the raw
\* value it was created with, and a clone is a further identifier equal to
\* its source.
C10_Immutable ==
  [][/\ Len(ids') >= Len(ids)
     /\ \A i \in Live : ids'[i] = ids[i]
     /\ \A i \in 1..Len(ids') : to_uuid(ids'[i]) = born'[i].raw
     /\ last'.op \in {"to_uuid", "eq", "hash", "to_string"} => ids' = ids
     /\ last'.op = "clone"
          => /\ last'.a = Len(ids) + 1
             /\ last'.b \in Live
             /\ eq(ids'[last'.a], ids'[last'.b])
             /\ ids'[last'.b] = ids[last'.b]]_vars

\* C10 witness: a clone exists beside its source after a reading operation.
C10_Witness ==
  /\ last.op \in {"to_uuid", "hash", "to_string"}
  /\ \E j \in Live : born[j].via = "clone" /\ born[j].src = last.a

====
